---- MODULE Spec2Model ----
(***************************************************************************)
(* Model of indexbdmv_parser: the IndexBDMV constructor, find_index_file  *)
(* and is_uhd_disc, run against a small POSIX (case-sensitive) file tree. *)
(*                                                                         *)
(* Bytes are integers 0..255, strings are sequences of character codes,   *)
(* paths are sequences of names relative to the directory argument.       *)
(***************************************************************************)
EXTENDS Integers, Sequences, FiniteSets, TLC

(* ----------------------------- bounds --------------------------------- *)

\* at most this many index-like files in the tree
MaxFiles == 2

\* generic file contents have at most this many bytes
MaxLen == 4

(* --------------------------- program constants ------------------------ *)

\* f.read(8)
ReadLen == 8

\* len(buffer) >= 4 and buffer[:4]
TagLen == 4

\* "INDX0300"
UHD_TAG == <<73, 78, 68, 88, 48, 51, 48, 48>>

\* self.version = None / return None
None == <<-1>>
NoPath == <<"None">>

(* ------------------------------ the tree ------------------------------ *)

Dirs == {<<>>, <<"BDMV">>, <<"EXTRA">>, <<"EXTRA", "BDMV">>}

Names == {"INDEX.BDMV", "index.bdmv", "Index.bdmv"}

AllPaths == {Append(d, n) : d \in Dirs, n \in Names}

\* the argument is an existing directory, a directory that does not exist,
\* or a path the OS refuses to stat (ENAMETOOLONG: it cannot exist either)
DirKinds == {"exists", "missing", "unstatable"}

\* the files open and read normally, or open() raises (no read permission, a
\* directory of that name), or read() raises (an I/O error)
IoFaults == {"none", "open", "read"}

Trees == {t \in SUBSET AllPaths : Cardinality(t) <= MaxFiles}

\* filenames handed directly to the constructor
DirectTargets == {<<"BDMV", "INDEX.BDMV">>, <<"INDEX.BDMV">>, <<"EXTRA", "index.bdmv">>}

(* ---------------------------- file contents --------------------------- *)

ByteAlphabet == {0, 73, 255}

SeqsUpTo(S, n) == UNION {[1..k -> S] : k \in 0..n}

SampleContents ==
    { <<73, 78, 68, 88, 48, 51, 48, 48, 0, 0>>,   \* b"INDX0300\x00\x00"
      <<73, 78, 68, 88, 48, 51, 48, 48>>,         \* b"INDX0300"
      <<73, 78, 68, 88, 48, 50, 48, 48>>,         \* b"INDX0200"
      <<73, 78, 68, 88>>,                         \* b"INDX"
      <<73, 78, 68>>,                             \* b"IND"
      <<48, 51, 48, 48, 73, 78, 68, 88>> }        \* b"0300INDX"

FileContents == SampleContents \cup SeqsUpTo(ByteAlphabet, MaxLen)

(* ------------------------------ helpers ------------------------------- *)

Take(s, n) == SubSeq(s, 1, IF Len(s) < n THEN Len(s) ELSE n)

Parent(p) == SubSeq(p, 1, Len(p) - 1)

Basename(p) == p[Len(p)]

IsProperPrefix(a, b) == Len(a) < Len(b) /\ SubSeq(b, 1, Len(a)) = a

(* ------------------------- pure functions ----------------------------- *)

\* bytes.decode('ascii', errors='ignore'): bytes above 0x7f are dropped
DecodeAsciiIgnore(bytes) == SelectSeq(bytes, LAMBDA b : b < 128)

\* str.rstrip('\0')
RECURSIVE RStripNul(_)
RStripNul(s) ==
    IF Len(s) > 0 /\ s[Len(s)] = 0 THEN RStripNul(SubSeq(s, 1, Len(s) - 1)) ELSE s

\* f.read(8): up to 8 bytes, fewer when the file is shorter
ReadBytes(content) == Take(content, ReadLen)

\* if len(buffer) >= 4
HasTag_m(buf) == Len(buf) >= 1
HasTag(buf) == Len(buf) >= TagLen

\* version_bytes = buffer[:4]
VersionBytes_m(buf) == Take(buf, ReadLen)
VersionBytes(buf) == Take(buf, TagLen)

\* version_bytes.decode('ascii', errors='ignore').rstrip('\0')
DecodeVersion(buf) == RStripNul(DecodeAsciiIgnore(VersionBytes(buf)))

\* self.is_uhd = self.version == "INDX0300"
IsUhdVersion_m(v) == v = Take(UHD_TAG, TagLen)
IsUhdVersion(v) == v = UHD_TAG

\* raise FileNotFoundError(...)
NotFoundError_m == "ValueError"
NotFoundError == "FileNotFoundError"

\* the `with open(...) as f:` block closes f on every way out of the block
HandleAfterWith_m(exc) == IF exc = "none" THEN "closed" ELSE "open"
HandleAfterWith(exc) == "closed"

\* directory_path / "BDMV" / "INDEX.BDMV"
StandardPath_m == <<"BDMV", "index.bdmv">>
StandardPath == <<"BDMV", "INDEX.BDMV">>

\* directory_path / "INDEX.BDMV"
AlternativePath == <<"INDEX.BDMV">>

\* directory_path.rglob("INDEX.BDMV")
UpperPattern == "INDEX.BDMV"

\* directory_path.rglob("index.bdmv")
LowerPattern_m == "Index.bdmv"
LowerPattern == "index.bdmv"

(* ------------------------------ state --------------------------------- *)

VARIABLES
    dirKind,        \* what the directory argument is on disk
    files,          \* the index-like files under the directory
    fault,          \* how those files answer open and read: fine, open fails, read fails
    entry,          \* the public function that was called
    pc,             \* position in the running call
    filename,       \* the constructor's argument
    found,          \* find_index_file's return value
    self_filename,  \* IndexBDMV.filename
    version,        \* IndexBDMV.version
    is_uhd,         \* IndexBDMV.is_uhd
    handle,         \* the file object f
    data,           \* the bytes of the opened file
    buffer,         \* buffer
    raised,         \* the exception in flight
    ret             \* is_uhd_disc's return value

vars == <<dirKind, files, fault, entry, pc, filename, found, self_filename, version,
          is_uhd, handle, data, buffer, raised, ret>>

fsVars == <<dirKind, files, fault>>
recordVars == <<self_filename, version, is_uhd>>
ioVars == <<handle, data, buffer>>

Init ==
    /\ dirKind \in DirKinds
    /\ files \in Trees
    /\ (dirKind # "exists" => files = {})
    /\ fault \in IoFaults
    /\ (files = {} => fault = "none")
    /\ entry = "none"
    /\ pc = "idle"
    /\ filename = NoPath
    /\ found = NoPath
    /\ self_filename = NoPath
    /\ version = None
    /\ is_uhd = FALSE
    /\ handle = "none"
    /\ data = <<>>
    /\ buffer = <<>>
    /\ raised = "none"
    /\ ret = "none"

\* a Python bool as is_uhd_disc returns it
BoolStr(b) == IF b THEN "True" ELSE "False"

(* --------------------------- the file system -------------------------- *)

\* Path.exists(): TRUE, FALSE, or the OSError of a stat the OS refuses
PathExists(p) ==
    IF dirKind = "unstatable" THEN "raise"
    ELSE IF dirKind = "exists" /\ p \in files THEN "yes" ELSE "no"

\* os.path.exists(): every OSError reads as FALSE
OsPathExists(p) == dirKind = "exists" /\ p \in files

\* Path.rglob(name) on a case-sensitive file system: the entries whose last
\* component is exactly name
RglobMatches(name) ==
    IF dirKind = "exists" THEN {p \in files : Basename(p) = name} ELSE {}

\* rglob walks a directory before its subdirectories, siblings in scandir
\* order: the first match is any match with no match in a directory above it
RglobFirst(name) ==
    {p \in RglobMatches(name) :
        ~ \E q \in RglobMatches(name) : IsProperPrefix(Parent(q), Parent(p))}

(* ----------------------------- the calls ------------------------------ *)

\* find_index_file(directory), called directly
Call_find_index_file ==
    /\ pc = "idle"
    /\ entry' = "find_index_file"
    /\ pc' = "find_standard"
    /\ UNCHANGED <<fsVars, filename, found, recordVars, ioVars, raised, ret>>

\* is_uhd_disc(directory): index_file = find_index_file(directory)
Call_is_uhd_disc ==
    /\ pc = "idle"
    /\ entry' = "is_uhd_disc"
    /\ pc' = "find_standard"
    /\ UNCHANGED <<fsVars, filename, found, recordVars, ioVars, raised, ret>>

\* IndexBDMV(filename), called directly
Call_IndexBDMV ==
    /\ pc = "idle"
    /\ \E f \in DirectTargets : filename' = f
    /\ entry' = "IndexBDMV"
    /\ pc' = "init_exists"
    /\ UNCHANGED <<fsVars, found, recordVars, ioVars, raised, ret>>

(* --------------------------- find_index_file -------------------------- *)

\* where find_index_file's caller goes on when it returns
AfterFind == IF entry = "is_uhd_disc" THEN "uhd_check" ELSE "done"

\* one `if index_path.exists(): return str(index_path)` on candidate p; an
\* exception leaves find_index_file and, uncaught, its caller is_uhd_disc
TryCandidate(p, next) ==
    LET r == PathExists(p) IN
    /\ found' = IF r = "yes" THEN p ELSE found
    /\ raised' = IF r = "raise" THEN "OSError" ELSE raised
    /\ pc' = IF r = "yes" THEN AfterFind ELSE IF r = "raise" THEN "done" ELSE next
    /\ UNCHANGED <<fsVars, entry, filename, recordVars, ioVars, ret>>

\* one `for path in directory_path.rglob(name): return str(path)`
TryRglob(name, next) ==
    /\ IF RglobFirst(name) # {}
          THEN /\ \E p \in RglobFirst(name) : found' = p
               /\ pc' = AfterFind
          ELSE /\ found' = found
               /\ pc' = next
    /\ UNCHANGED <<fsVars, entry, filename, recordVars, ioVars, raised, ret>>

FindStandard ==
    /\ pc = "find_standard"
    /\ TryCandidate(StandardPath, "find_alternative")

FindAlternative ==
    /\ pc = "find_alternative"
    /\ TryCandidate(AlternativePath, "find_rglob_upper")

FindRglobUpper ==
    /\ pc = "find_rglob_upper"
    /\ TryRglob(UpperPattern, "find_rglob_lower")

FindRglobLower ==
    /\ pc = "find_rglob_lower"
    /\ TryRglob(LowerPattern, "find_none")

\* return None
FindNone ==
    /\ pc = "find_none"
    /\ found' = NoPath
    /\ pc' = AfterFind
    /\ UNCHANGED <<fsVars, entry, filename, recordVars, ioVars, raised, ret>>

(* ------------------------- IndexBDMV.__init__ ------------------------- *)

\* where the constructor's caller goes on
AfterInit(exc) ==
    IF entry = "is_uhd_disc"
       THEN (IF exc = "none" THEN "uhd_return" ELSE "uhd_except")
       ELSE "done"

\* if not os.path.exists(filename): raise FileNotFoundError
\* else the three fields are set
InitFields ==
    /\ pc = "init_exists"
    /\ IF ~ OsPathExists(filename)
          THEN /\ raised' = NotFoundError
               /\ pc' = AfterInit(NotFoundError)
               /\ UNCHANGED recordVars
          ELSE /\ self_filename' = filename
               /\ is_uhd' = FALSE
               /\ version' = None
               /\ pc' = "open"
               /\ UNCHANGED raised
    /\ UNCHANGED <<fsVars, entry, filename, found, ioVars, ret>>

\* open(filename, mode="rb"): the file object, or an OSError (no read
\* permission, a directory of that name, ...)
Open ==
    /\ pc = "open"
    /\ IF fault # "open"
             THEN /\ handle' = "open"
                  /\ data' \in FileContents
                  /\ pc' = "read"
                  /\ UNCHANGED raised
             ELSE /\ raised' = "OSError"
                  /\ pc' = AfterInit("OSError")
                  /\ UNCHANGED <<handle, data>>
    /\ UNCHANGED <<fsVars, entry, filename, found, recordVars, buffer, ret>>

\* buffer = f.read(8), or an OSError of the read
Read ==
    /\ pc = "read"
    /\ IF fault # "read"
             THEN /\ buffer' = ReadBytes(data)
                  /\ pc' = "parse"
                  /\ UNCHANGED raised
             ELSE /\ raised' = "OSError"
                  /\ pc' = "with_exit"
                  /\ UNCHANGED buffer
    /\ UNCHANGED <<fsVars, entry, filename, found, recordVars, handle, data, ret>>

\* if len(buffer) >= 4: version and is_uhd from the first 4 bytes
Parse ==
    /\ pc = "parse"
    /\ IF HasTag(buffer)
          THEN /\ version' = DecodeVersion(buffer)
               /\ is_uhd' = IsUhdVersion(DecodeVersion(buffer))
          ELSE UNCHANGED <<version, is_uhd>>
    /\ pc' = "with_exit"
    /\ UNCHANGED <<fsVars, entry, filename, found, self_filename, ioVars, raised, ret>>

\* leaving the with block: f is closed, a pending exception goes on
WithExit ==
    /\ pc = "with_exit"
    /\ handle' = HandleAfterWith(raised)
    /\ pc' = AfterInit(raised)
    /\ UNCHANGED <<fsVars, entry, filename, found, recordVars, data, buffer, raised, ret>>

(* ------------------------------ is_uhd_disc --------------------------- *)

\* if not index_file: return False; else index = IndexBDMV(index_file)
UhdCheck ==
    /\ pc = "uhd_check"
    /\ IF found = NoPath
          THEN /\ ret' = BoolStr(FALSE)
               /\ pc' = "done"
               /\ UNCHANGED filename
          ELSE /\ filename' = found
               /\ pc' = "init_exists"
               /\ UNCHANGED ret
    /\ UNCHANGED <<fsVars, entry, found, recordVars, ioVars, raised>>

\* return index.is_uhd
UhdReturn ==
    /\ pc = "uhd_return"
    /\ ret' = BoolStr(is_uhd)
    /\ pc' = "done"
    /\ UNCHANGED <<fsVars, entry, filename, found, recordVars, ioVars, raised>>

\* except Exception: return False
UhdExcept ==
    /\ pc = "uhd_except"
    /\ raised' = "none"
    /\ ret' = BoolStr(FALSE)
    /\ pc' = "done"
    /\ UNCHANGED <<fsVars, entry, filename, found, recordVars, ioVars>>

Next ==
    \/ Call_find_index_file
    \/ Call_is_uhd_disc
    \/ Call_IndexBDMV
    \/ FindStandard
    \/ FindAlternative
    \/ FindRglobUpper
    \/ FindRglobLower
    \/ FindNone
    \/ InitFields
    \/ Open
    \/ Read
    \/ Parse
    \/ WithExit
    \/ UhdCheck
    \/ UhdReturn
    \/ UhdExcept

Spec == Init /\ [][Next]_vars

(* ---------------------- predicates used by the claims ----------------- *)

FindSteps == {"find_standard", "find_alternative", "find_rglob_upper",
              "find_rglob_lower", "find_none"}

\* find_index_file has been called and has left, by return or by exception
FindFinished ==
    /\ entry \in {"find_index_file", "is_uhd_disc"}
    /\ pc \notin FindSteps

\* the constructor has been called and has left, by return or by exception
InitFinished ==
    /\ filename # NoPath
    /\ pc \in {"uhd_return", "uhd_except", "done"}

\* the constructor was given an existing file that opens and reads normally,
\* and has run to its end
InitFinishedOnReadableFile ==
    /\ InitFinished
    /\ dirKind = "exists" /\ filename \in files
    /\ fault = "none"

FilesNamed(name) == {p \in files : p[Len(p)] = name}

\* the lookups of find_index_file, in order, as sets of files on disk
LookupMatches ==
    << files \cap {<<"BDMV", "INDEX.BDMV">>},
       files \cap {<<"INDEX.BDMV">>},
       FilesNamed("INDEX.BDMV"),
       FilesNamed("index.bdmv") >>

UhdSample == <<73, 78, 68, 88, 48, 51, 48, 48, 0, 0>>

\* the first 4 bytes, those of them that are ASCII, up to the last one that
\* is not NUL, by index
RefVersion(d) ==
    LET ascii == {i \in 1..4 : d[i] < 128}
        nonNul == {i \in ascii : d[i] # 0}
        kept == {i \in ascii : \E j \in nonNul : i <= j}
        nth(k) == CHOOSE i \in kept : Cardinality({j \in kept : j <= i}) = k
    IN  [k \in 1..Cardinality(kept) |-> d[nth(k)]]

(* ------------------------------- claims ------------------------------- *)

\* C1: with disc/BDMV/INDEX.BDMV holding b"INDX0300\x00\x00" (and opening and
\* reading normally), is_uhd_disc("disc") returns True.
C1_EndToEndUhd ==
    ( /\ entry = "is_uhd_disc" /\ pc = "done"
      /\ dirKind = "exists" /\ <<"BDMV", "INDEX.BDMV">> \in files
      /\ fault = "none"
      /\ data = UhdSample )
    => ret = "True"

\* C2: is_uhd_disc never raises: whenever it has finished it has returned a
\* boolean, and no exception is in flight.
C2_IsUhdDiscTotal ==
    (entry = "is_uhd_disc" /\ pc = "done")
    => (raised = "none" /\ ret \in {"True", "False"})

C4_PriorityOrder ==
    FindFinished =>
        \A k \in 1..4 :
            ( /\ LookupMatches[k] # {}
              /\ \A j \in 1..(k - 1) : LookupMatches[j] = {} )
            => found \in LookupMatches[k]

C4_Witness ==
    /\ FindFinished
    /\ files = {<<"BDMV", "INDEX.BDMV">>, <<"EXTRA", "BDMV", "INDEX.BDMV">>}
    /\ found = <<"BDMV", "INDEX.BDMV">>

\* C5: the constructor on a path that does not exist raises FileNotFoundError
\* to its caller with no file opened and no record field set; is_uhd_disc on
\* a directory in which no lookup finds an index file returns False and does
\* not raise.
C5_NotFound ==
    /\ ( /\ entry = "IndexBDMV" /\ pc = "done"
         /\ ~ (dirKind = "exists" /\ filename \in files) )
       => ( /\ raised = "FileNotFoundError"
            /\ handle = "none"
            /\ self_filename = NoPath )
    /\ ( /\ entry = "is_uhd_disc" /\ pc = "done"
         /\ dirKind = "exists"
         /\ \A k \in 1..4 : LookupMatches[k] = {} )
       => (ret = "False" /\ raised = "none")

C5_Witness ==
    /\ entry = "IndexBDMV" /\ pc = "done"
    /\ dirKind = "exists" /\ files # {} /\ filename \notin files
    /\ raised = "FileNotFoundError"

\* C6: on an existing file of fewer than 4 bytes the constructor ends without
\* an error, version is None and is_uhd is False.
C6_ShortFile ==
    (InitFinishedOnReadableFile /\ Len(data) < 4)
    => ( /\ version = None
         /\ ~ is_uhd
         /\ self_filename = filename
         /\ pc # "uhd_except"
         /\ (entry = "IndexBDMV" => raised = "none") )

C6_Witness ==
    /\ InitFinishedOnReadableFile
    /\ entry = "IndexBDMV"
    /\ Len(data) = 3
    /\ version = None /\ raised = "none"

\* C7: whenever some file under the directory is named INDEX.BDMV in any
\* letter case, find_index_file returns a path, not None.
C7_CaseInsensitive ==
    ( /\ entry = "find_index_file" /\ pc = "done"
      /\ dirKind = "exists"
      /\ \E p \in files : p[Len(p)] \in {"INDEX.BDMV", "index.bdmv", "Index.bdmv"} )
    => found # NoPath

\* C7 as amended: the recursive search is for the two exact names only. In an
\* existing directory, find_index_file returns a path whenever some file is
\* named exactly INDEX.BDMV or index.bdmv, returns only files of those two
\* names, and returns None when every file differs from them in letter case.
C7_ExactNames ==
    (entry = "find_index_file" /\ pc = "done" /\ dirKind = "exists")
    => LET exact == FilesNamed("INDEX.BDMV") \cup FilesNamed("index.bdmv") IN
       /\ (exact # {} => found \in exact)
       /\ (exact = {} => found = NoPath)

C7_Witness ==
    /\ entry = "find_index_file" /\ pc = "done"
    /\ files = {<<"Index.bdmv">>, <<"EXTRA", "BDMV", "index.bdmv">>}
    /\ found = <<"EXTRA", "BDMV", "index.bdmv">>

\* C8: find_index_file never raises; it returns None exactly when no lookup
\* finds a file, and returns None when the directory does not exist.
C8_FindNeverRaises ==
    (entry = "find_index_file" /\ pc = "done")
    => ( /\ raised = "none"
         /\ (found = NoPath <=> \A k \in 1..4 : LookupMatches[k] = {})
         /\ (dirKind # "exists" => found = NoPath) )

\* C9: on a file of at least 4 bytes, version is the ASCII bytes among the
\* first 4, in order, without trailing NULs: at most 4 characters, never
\* ending in NUL, "INDX" for b"INDX...", "" for four NUL bytes.
C9_VersionDecoding ==
    (InitFinishedOnReadableFile /\ Len(data) >= 4)
    => ( /\ version = RefVersion(data)
         /\ Len(version) <= 4
         /\ (version # <<>> => version[Len(version)] # 0)
         /\ (SubSeq(data, 1, 4) = <<73, 78, 68, 88>> => version = <<73, 78, 68, 88>>)
         /\ (SubSeq(data, 1, 4) = <<0, 0, 0, 0>> => (version = <<>> /\ ~ is_uhd)) )

C9_Witness ==
    /\ InitFinishedOnReadableFile
    /\ data = <<73, 0, 255, 0>>
    /\ version = <<73>>

\* C10: once the constructor has left, by return or by exception, the file it
\* opened is closed, and it never holds more than 8 bytes of the file.
C10_HandleReleased ==
    /\ InitFinished => handle # "open"
    /\ Len(buffer) <= 8

C10_Witness ==
    /\ InitFinished
    /\ fault = "read"
    /\ handle = "closed"

====
